---- MODULE Spec2Model ----
(***************************************************************************)
(* A state-machine model of adafruit_slideshow.SlideShow: the catalog      *)
(* (_file_list), the cursor (the generator _get_next_image), the playback  *)
(* state machine (update / advance) and the backlight level.               *)
(*                                                                         *)
(* Image identifiers are the integers 1..N; their numeric order stands for *)
(* the lexicographic order of the file names (os.listdir yields distinct   *)
(* names).  Time is counted in whole seconds.                              *)
(***************************************************************************)
EXTENDS Integers, Sequences, FiniteSets, TLC

\* ------------------------------------------------------------------ bounds
MaxFiles == 3
MaxShuffled == 2
MaxDwell == 1
MaxShown == 7

\* --------------------------------------------------------------- constants
FADE_IN == 0
SHOW_IMG == 1
FADE_OUT == 2
LOAD_IMG == 3
WAIT == 4

ALPHA == 0
RANDOM == 1

BACKWARD == -1
FORWARD == 1

\* an order value that is neither ALPHA nor RANDOM
BadOrder == RANDOM + 1

\* SlideShow._max_brightness, the class attribute
InitBrightness == 2 ^ 15
\* _img_start = None
NoStart == -1

\* the largest value of (clock - _img_start) the model tells apart: every
\* larger one compares to dwell as this one does
MaxElapsed == MaxDwell + 1

VARIABLES
    file_list,       \* self._file_list: the catalog, a sequence of identifiers
    images,          \* self._images: the generator of _get_next_image
    order,           \* self._order
    direction,       \* self.direction
    loop,            \* self.loop
    auto_advance,    \* self.auto_advance
    dwell,           \* self.dwell
    current_state,   \* self._current_state
    img_age,         \* time.monotonic() - self._img_start when last sampled
    group,           \* self._group: the images on the display
    max_brightness,  \* self._max_brightness
    current_backlight_level, \* self._current_backlight_level
    call,            \* the last call made on the object
    arg,             \* its argument (0: none; a boolean as 1 or 0)
    result,          \* what that call returned or raised
    stopped,         \* history: some update() has returned False
    shown            \* history: the identifiers presented, in order

vars == <<file_list, images, order, direction, loop, auto_advance, dwell,
          current_state, img_age, group, max_brightness,
          current_backlight_level, call, arg, result,
          stopped, shown>>

config == <<order, direction, loop, auto_advance, dwell>>
backlight == <<max_brightness, current_backlight_level>>
history == <<stopped, shown>>
playback == <<file_list, images, current_state, img_age, group>>

\* ------------------------------------------------------------ pure helpers
Min(a, b) == IF a < b THEN a ELSE b

Range(s) == {s[i] : i \in 1..Len(s)}

\* every ordering of the elements of s
Orderings(s) ==
    {t \in [1..Len(s) -> Range(s)] : \A i, j \in 1..Len(s) : i # j => t[i] # t[j]}

\* sorted(self._file_list)
sorted(s) == SortSeq(s, LAMBDA a, b : a < b)

\* list[i] of Python, i counted from 0; negative i counts from the end
InRange(s, i) == -Len(s) <= i /\ i < Len(s)

getitem(s, i) == IF i >= 0 THEN s[i + 1] ELSE s[Len(s) + i + 1]

\* os.listdir + filter: the folders of at most MaxFiles matching files
Catalogs == UNION {Orderings([i \in 1..n |-> i]) : n \in 0..MaxFiles}


\* ------------------------------------------------------------------ cursor
\* The generator object: pc is "created" before its first next(), "suspended"
\* at the yield, "finished" once it has returned or raised.  index and
\* wrapped are its locals (0 and FALSE while it has none).
NewGenerator == [pc |-> "created", index |-> 0, wrapped |-> FALSE]

FinishedGenerator == [pc |-> "finished", index |-> 0, wrapped |-> FALSE]

\* index = -1 if self.direction == PlayBackDirection.FORWARD else len(...)
start_index == IF direction = FORWARD THEN -1 ELSE Len(file_list)

\* variant: the index always steps forward
StepsForward(i) ==
    LET n == Len(file_list)
        j == i + 1
    IN  [index |-> IF j < 0 THEN n - 1 ELSE IF j >= n THEN 0 ELSE j,
         wrapped |-> j < 0 \/ j >= n]

\* index += self.direction, with the two wrap tests
step_index(i) ==
    LET n == Len(file_list)
        j == i + direction
    IN  [index |-> IF j < 0 THEN n - 1 ELSE IF j >= n THEN 0 ELSE j,
         wrapped |-> j < 0 \/ j >= n]

\* variant: the generator never returns
StopsNever == FALSE

\* variant: the generator returns after any wrap
StopsAlways == images.wrapped

\* if wrapped and not self.loop: return
stops_after_yield == images.wrapped /\ ~loop

\* One turn of the while loop up to the yield, from the local index i:
\* the generator after it, and what next() gives the caller.
LoopBody(i) ==
    LET at == step_index(i)
    IN  IF InRange(file_list, at.index)
        THEN [gen |-> [pc |-> "suspended", index |-> at.index, wrapped |-> at.wrapped],
              outcome |-> "yield", value |-> getitem(file_list, at.index)]
        ELSE [gen |-> FinishedGenerator, outcome |-> "IndexError", value |-> 0]

\* next(self._images)
get_next_image ==
    IF images.pc = "created" THEN LoopBody(start_index)
    ELSE IF images.pc = "suspended" /\ ~stops_after_yield THEN LoopBody(images.index)
    ELSE [gen |-> FinishedGenerator, outcome |-> "StopIteration", value |-> 0]

\* ------------------------------------------------------------------ update
\* variant: SHOW_IMG never goes to WAIT
ShowExitAlwaysFades(age) == IF age > dwell THEN FADE_OUT ELSE SHOW_IMG

\* variant: SHOW_IMG is left as soon as the dwell is reached
ShowExitAtDwell(age) ==
    IF age >= dwell THEN IF auto_advance THEN FADE_OUT ELSE WAIT ELSE SHOW_IMG

\* the state SHOW_IMG leaves to, when now - self._img_start is age
show_exit(age) ==
    IF age > dwell THEN IF auto_advance THEN FADE_OUT ELSE WAIT ELSE SHOW_IMG

\* variant: FADE_OUT leaves the image in the group
PopKeeps(g) == g

\* self._group.pop()
pop(g) == SubSeq(g, 1, Len(g) - 1)

\* variant: the state is set before _show_bmp is tried
LoadExitAlwaysFadesIn(accept) == FADE_IN

\* the state LOAD_IMG leaves to once the cursor has yielded: FADE_IN when
\* _show_bmp returns, LOAD_IMG still when it raises ValueError
load_exit(accept) == IF accept THEN FADE_IN ELSE LOAD_IMG

\* update(), called dt seconds after the clock was last sampled; fd is the
\* time between its two clock readings when it fades in, and accept tells
\* whether the display takes the image (_show_bmp does not raise ValueError).
\* What it computes, stage by stage as the if-statements run.  The writes
\* to the backlight's duty cycle are left out: nothing reads them back.
UpdateOutcome(dt, fd, accept) ==
    LET \* FADE_IN
        inFadeIn == current_state = FADE_IN
        st1 == IF inFadeIn THEN SHOW_IMG ELSE current_state
        \* now - self._img_start
        started == inFadeIn \/ img_age # NoStart
        age == IF inFadeIn THEN -fd ELSE img_age + dt
        \* SHOW_IMG
        inShow == st1 = SHOW_IMG
        typeError == inShow /\ ~started
        st2 == IF inShow /\ ~typeError THEN show_exit(age) ELSE st1
        \* FADE_OUT
        inFadeOut == ~typeError /\ st2 = FADE_OUT
        popError == inFadeOut /\ group = <<>>
        group4 == IF inFadeOut /\ ~popError THEN pop(group) ELSE group
        st4 == IF inFadeOut /\ ~popError THEN LOAD_IMG ELSE st2
        \* LOAD_IMG
        inLoad == ~typeError /\ ~popError /\ st4 = LOAD_IMG
        nx == get_next_image
        yielded == inLoad /\ nx.outcome = "yield"
        presented == yielded /\ accept
    IN  [state |-> IF yielded THEN load_exit(accept) ELSE st4,
         group |-> IF presented THEN Append(group4, nx.value) ELSE group4,
         images |-> IF inLoad THEN nx.gen ELSE images,
         age |-> IF inFadeIn THEN 0
                 ELSE IF img_age = NoStart THEN NoStart
                 ELSE Min(img_age + dt, MaxElapsed),
         presented |-> presented,
         value |-> IF yielded THEN nx.value ELSE 0,
         result |-> IF typeError THEN "TypeError"
                    ELSE IF popError THEN "IndexError"
                    ELSE IF inLoad /\ nx.outcome = "StopIteration" THEN "False"
                    ELSE IF inLoad /\ nx.outcome = "IndexError" THEN "IndexError"
                    ELSE "True"]

update(dt, fd, accept) ==
    LET out == UpdateOutcome(dt, fd, accept)
    IN  /\ current_state' = out.state
        /\ group' = out.group
        /\ images' = out.images
        /\ img_age' = out.age
        /\ call' = "update"
        /\ arg' = 0
        /\ result' = out.result
        /\ UNCHANGED <<file_list, config, backlight>>

\* ----------------------------------------------------------------- advance
\* variant: advance() without the test for WAIT
AdvanceFromAnyState(d) ==
    /\ direction' = IF d # 0 THEN d ELSE direction
    /\ current_state' = FADE_OUT
    /\ call' = "advance"
    /\ arg' = d
    /\ result' = "None"
    /\ UNCHANGED <<file_list, images, order, loop, auto_advance, dwell,
                   img_age, group, backlight>>

\* variant: advance() takes the direction only when it advances
AdvanceTurnsOnlyInWait(d) ==
    /\ direction' = IF d # 0 /\ current_state = WAIT THEN d ELSE direction
    /\ current_state' = IF current_state = WAIT THEN FADE_OUT ELSE current_state
    /\ call' = "advance"
    /\ arg' = d
    /\ result' = "None"
    /\ UNCHANGED <<file_list, images, order, loop, auto_advance, dwell,
                   img_age, group, backlight>>

\* advance(direction); d = 0 stands for the default None (both are falsy)
advance(d) ==
    /\ direction' = IF d # 0 THEN d ELSE direction
    /\ current_state' = IF current_state = WAIT THEN FADE_OUT ELSE current_state
    /\ call' = "advance"
    /\ arg' = d
    /\ result' = "None"
    /\ UNCHANGED <<file_list, images, order, loop, auto_advance, dwell,
                   img_age, group, backlight>>

\* ------------------------------------------------------------ order setter
\* the lists _update_order may leave in self._file_list when the order is o
update_order(o) ==
    IF o = ALPHA THEN {sorted(file_list)}
    ELSE IF o = RANDOM THEN Orderings(file_list)
    ELSE {file_list}

\* variant: the setter without its validation
SetOrderUnvalidated(o) ==
    /\ call' = "order"
    /\ arg' = o
    /\ result' = "None"
    /\ IF o = order
       THEN UNCHANGED <<playback, config, backlight>>
       ELSE /\ order' = o
            /\ file_list' \in update_order(o)
            /\ UNCHANGED <<images, direction, loop, auto_advance, dwell,
                           current_state, img_age, group, backlight>>

\* variant: the setter without its test for an unchanged value
SetOrderAlwaysReorders(o) ==
    /\ call' = "order"
    /\ arg' = o
    /\ IF o \notin {ALPHA, RANDOM}
       THEN /\ result' = "ValueError"
            /\ UNCHANGED <<playback, config, backlight>>
       ELSE /\ result' = "None"
            /\ order' = o
            /\ file_list' \in update_order(o)
            /\ UNCHANGED <<images, direction, loop, auto_advance, dwell,
                           current_state, img_age, group, backlight>>

\* variant: a change of order restarts the cursor
SetOrderReloads(o) ==
    /\ call' = "order"
    /\ arg' = o
    /\ IF o \notin {ALPHA, RANDOM}
       THEN /\ result' = "ValueError"
            /\ UNCHANGED <<playback, config, backlight>>
       ELSE IF o = order
       THEN /\ result' = "None"
            /\ UNCHANGED <<playback, config, backlight>>
       ELSE /\ result' = "None"
            /\ order' = o
            /\ file_list' \in update_order(o)
            /\ images' = NewGenerator
            /\ UNCHANGED <<direction, loop, auto_advance, dwell,
                           current_state, img_age, group, backlight>>

\* slideshow.order = o
set_order(o) ==
    /\ call' = "order"
    /\ arg' = o
    /\ IF o \notin {ALPHA, RANDOM}
       THEN /\ result' = "ValueError"
            /\ UNCHANGED <<playback, config, backlight>>
       ELSE IF o = order
       THEN /\ result' = "None"
            /\ UNCHANGED <<playback, config, backlight>>
       ELSE /\ result' = "None"
            /\ order' = o
            /\ file_list' \in update_order(o)
            /\ UNCHANGED <<images, direction, loop, auto_advance, dwell,
                           current_state, img_age, group, backlight>>

\* ------------------------------------------------------ plain attributes
\* slideshow.direction = d
set_direction(d) ==
    /\ direction' = d
    /\ call' = "direction"
    /\ arg' = d
    /\ result' = "None"
    /\ UNCHANGED <<playback, order, loop, auto_advance, dwell, backlight>>

\* slideshow.loop = b
set_loop(b) ==
    /\ loop' = b
    /\ call' = "loop"
    /\ arg' = (IF b THEN 1 ELSE 0)
    /\ result' = "None"
    /\ UNCHANGED <<playback, order, direction, auto_advance, dwell, backlight>>

\* slideshow.auto_advance = b
set_auto_advance(b) ==
    /\ auto_advance' = b
    /\ call' = "auto_advance"
    /\ arg' = (IF b THEN 1 ELSE 0)
    /\ result' = "None"
    /\ UNCHANGED <<playback, order, direction, loop, dwell, backlight>>

\* --------------------------------------------------------------- backlight
\* variant: the upper clamp tests > instead of >=
RaisedOffByOne(level) == IF level > 2 ^ 16 THEN 2 ^ 16 - 1 ELSE level

\* if self._max_brightness >= 2 ** 16: self._max_brightness = 2 ** 16 - 1
raised(level) == IF level >= 2 ^ 16 THEN 2 ^ 16 - 1 ELSE level

\* if self._max_brightness < 0: self._max_brightness = 0
lowered(level) == IF level < 0 THEN 0 ELSE level

backlight_level_up(step) ==
    /\ max_brightness' = raised(max_brightness + step)
    /\ current_backlight_level' = max_brightness'
    /\ call' = "backlight_level_up"
    /\ arg' = step
    /\ result' = current_backlight_level'
    /\ UNCHANGED <<playback, config>>

backlight_level_down(step) ==
    /\ max_brightness' = lowered(max_brightness - step)
    /\ current_backlight_level' = max_brightness'
    /\ call' = "backlight_level_down"
    /\ arg' = step
    /\ result' = current_backlight_level'
    /\ UNCHANGED <<playback, config>>

\* ---------------------------------------------------------- construction
\* SlideShow(order=o, loop=l, dwell=dw, auto_advance=aa) on a folder whose
\* listing is listing: _load_images, the order setter, then _update_order
\* once more; then slideshow.direction = d, before any other call.
Configured(listing, o, l, dw, aa, d) ==
    /\ file_list \in (IF o = ALPHA THEN {sorted(listing)} ELSE Orderings(listing))
    /\ images = NewGenerator
    /\ order = o
    /\ direction = d
    /\ loop = l
    /\ auto_advance = aa
    /\ dwell = dw
    /\ current_state = LOAD_IMG
    /\ img_age = NoStart
    /\ group = <<>>
    /\ max_brightness = InitBrightness
    /\ current_backlight_level = InitBrightness
    /\ call = "SlideShow"
    /\ arg = 0
    /\ result = "None"

Constructed(listing, o, l, dw, aa) == Configured(listing, o, l, dw, aa, FORWARD)

\* the caller shuffles only catalogs of at most MaxShuffled files
MayShuffle(s) == Len(s) <= MaxShuffled

Init ==
    /\ \E listing \in Catalogs, o \in {ALPHA, RANDOM}, l \in BOOLEAN,
          dw \in 0..MaxDwell, aa \in BOOLEAN :
            /\ o = RANDOM => MayShuffle(listing)
            /\ Constructed(listing, o, l, dw, aa)
    /\ stopped = FALSE
    /\ shown = <<>>

\* ------------------------------------------------------------------- steps
Update ==
    \E dt \in {0, 1}, fd \in {0, 1}, accept \in BOOLEAN :
        /\ update(dt, fd, accept)
        /\ stopped' = (stopped \/ result' = "False")
        /\ UNCHANGED shown

Advance ==
    \E d \in {0, BACKWARD, FORWARD} : advance(d) /\ UNCHANGED history

SetOrder ==
    \E o \in {ALPHA, RANDOM, BadOrder} :
        /\ o = RANDOM => MayShuffle(file_list)
        /\ set_order(o)
        /\ UNCHANGED history

SetDirection ==
    \E d \in {BACKWARD, FORWARD} : set_direction(d) /\ UNCHANGED history

SetLoop ==
    \E b \in BOOLEAN : set_loop(b) /\ UNCHANGED history

SetAutoAdvance ==
    \E b \in BOOLEAN : set_auto_advance(b) /\ UNCHANGED history

Next ==
    \/ Update
    \/ Advance
    \/ SetOrder
    \/ SetDirection
    \/ SetLoop
    \/ SetAutoAdvance

Spec == Init /\ [][Next]_vars

\* ------------------------------------------------- unattended playback
\* The loop of examples/slideshow_simpletest.py: the slideshow is built and
\* configured (auto_advance on, any loop, order, dwell and direction), then
\* only update() is called, and the display takes every image.  shown
\* records the first MaxShown identifiers presented.
InitRun ==
    /\ \E listing \in Catalogs, o \in {ALPHA, RANDOM}, l \in BOOLEAN,
          dw \in 0..MaxDwell, d \in {BACKWARD, FORWARD} :
            /\ o = RANDOM => MayShuffle(listing)
            /\ Configured(listing, o, l, dw, TRUE, d)
    /\ stopped = FALSE
    /\ shown = <<>>

RunUpdate(dt) ==
    \E fd \in {0, 1} :
        /\ update(dt, fd, TRUE)
        /\ stopped' = (stopped \/ result' = "False")
        /\ shown' = IF UpdateOutcome(dt, fd, TRUE).presented /\ Len(shown) < MaxShown
                    THEN Append(shown, UpdateOutcome(dt, fd, TRUE).value)
                    ELSE shown

NextRun == \E dt \in {0, 1} : RunUpdate(dt)

\* the caller keeps calling update() and the clock keeps advancing
SpecRun == InitRun /\ [][NextRun]_vars /\ WF_vars(RunUpdate(1))

\* ------------------------------------------------------- turning around
\* The buttons of examples/slideshow_touch.py: the slideshow is built in
\* alphabetical order with a dwell of 0, looping or not, advancing by itself
\* or not; between calls of update() the caller advances, forward or
\* backward, or assigns direction.  The display takes every image and shown
\* records the first MaxShown identifiers presented.
InitTurn ==
    /\ \E listing \in Catalogs, l \in BOOLEAN, aa \in BOOLEAN :
            Constructed(listing, ALPHA, l, 0, aa)
    /\ stopped = FALSE
    /\ shown = <<>>

NextTurn ==
    \/ \E dt \in {0, 1} : RunUpdate(dt)
    \/ Advance
    \/ SetDirection

SpecTurn == InitTurn /\ [][NextTurn]_vars

\* ---------------------------------------------------- reordering in play
\* Unattended playback as above, played once (loop off), during which the
\* caller assigns order the value it does not have, so that every assignment
\* rebuilds the catalog.
InitReorder == InitRun /\ ~loop

Reorder ==
    \E o \in {ALPHA, RANDOM} :
        /\ o # order
        /\ o = RANDOM => MayShuffle(file_list)
        /\ set_order(o)
        /\ UNCHANGED history

NextReorder ==
    \/ \E dt \in {0, 1} : RunUpdate(dt)
    \/ Reorder

SpecReorder == InitReorder /\ [][NextReorder]_vars

\* ------------------------------------------------------ unreadable files
\* Unattended playback of a folder in which no file is an image the display
\* takes: every _show_bmp raises ValueError.
RejectUpdate ==
    \E dt \in {0, 1}, fd \in {0, 1} :
        /\ update(dt, fd, FALSE)
        /\ stopped' = (stopped \/ result' = "False")
        /\ UNCHANGED shown

\* the caller keeps calling update()
SpecReject == InitRun /\ [][RejectUpdate]_vars /\ WF_vars(RejectUpdate)

\* ------------------------------------------------------ backlight buttons
\* The brightness buttons of examples/slideshow_touch.py, with the default
\* step and with steps up to and beyond the whole range.
Steps == {0, 16, 2 ^ 15, 2 ^ 16 - 1, 2 ^ 16 + 16}

InitBacklight ==
    /\ Constructed(<<1>>, ALPHA, TRUE, 0, FALSE)
    /\ stopped = FALSE
    /\ shown = <<>>

BacklightUp == \E step \in Steps : backlight_level_up(step) /\ UNCHANGED history

BacklightDown == \E step \in Steps : backlight_level_down(step) /\ UNCHANGED history

NextBacklight == BacklightUp \/ BacklightDown

SpecBacklight == InitBacklight /\ [][NextBacklight]_vars

\* ------------------------------------------------------------------ claims
Reverse(s) == [i \in 1..Len(s) |-> s[Len(s) + 1 - i]]

IsPrefix(s, t) == Len(s) <= Len(t) /\ \A i \in 1..Len(s) : s[i] = t[i]

\* the catalog in the order the configured direction walks it
Traversal == IF direction = FORWARD THEN file_list ELSE Reverse(file_list)

\* C1: with loop = false, auto_advance = true, a fixed direction and every
\* image accepted, the images presented are exactly the catalog entries, each
\* once, in traversal order, and update() returns False at the request that
\* follows the last of them.
C1_PlaysCatalogOnce ==
    (~loop /\ file_list # <<>>) =>
        /\ IsPrefix(shown, Traversal)
        /\ result = "False" => shown = Traversal

\* C2: with loop = true, auto_advance = true and a fixed direction, update()
\* never returns False (nor raises), the k-th identifier requested is
\* catalog[(k-1) mod N] going forward and catalog[(N-k) mod N] going backward,
\* and every identifier is on the display infinitely often.
C2_Cycle ==
    LET N == Len(file_list)
    IN  (loop /\ N > 0) =>
            /\ result \in {"None", "True"}
            /\ \A k \in 1..Len(shown) :
                  shown[k] = IF direction = FORWARD
                             THEN getitem(file_list, (k - 1) % N)
                             ELSE getitem(file_list, (N - k) % N)

C2_LoopCyclesForever ==
    /\ []C2_Cycle
    /\ \A i \in 1..MaxFiles :
          [](loop /\ i \in Range(file_list) => <>(group = <<i>>))

\* a looping catalog of three images has gone round twice, backward
C2_Witness ==
    /\ loop /\ direction = BACKWARD /\ file_list = <<1, 2, 3>>
    /\ shown = <<3, 2, 1, 3, 2, 1, 3>>

\* C3: with an empty catalog update() never raises and never presents
\* anything: the first call, as every later one, returns False.
C3_EmptyCatalogReturnsFalse ==
    (file_list = <<>> /\ call = "update") => (result = "False" /\ group = <<>>)

\* C4: once update() has returned False, every later update() returns False,
\* nothing is on the display and the playback state is LOAD_IMG, whatever the
\* caller does in between.
C4_ExhaustionAbsorbing ==
    stopped =>
        /\ current_state = LOAD_IMG
        /\ group = <<>>
        /\ call = "update" => result = "False"

\* update() returns False again on a catalog that was played to its end, after
\* the caller has turned loop on, reversed the direction and changed the order
C4_Witness ==
    /\ stopped /\ call = "update" /\ result = "False"
    /\ Len(file_list) = 2 /\ loop /\ direction = BACKWARD /\ order = RANDOM

\* C5: advance() moves the playback state from WAIT to FADE_OUT and leaves
\* every other playback state as it is, with or without a direction argument.
C5_AdvanceOnlyLeavesWait ==
    [][call' = "advance" =>
          current_state' = IF current_state = WAIT THEN FADE_OUT ELSE current_state]_vars

\* advance(BACKWARD) was called while an image was being shown
C5_Witness ==
    call = "advance" /\ arg = BACKWARD /\ current_state = SHOW_IMG

\* C6, as stated: advance(direction) outside WAIT changes nothing, the
\* configured direction included.
C6_AdvanceOutsideWaitIsNoOp ==
    [][(call' = "advance" /\ current_state # WAIT) =>
          UNCHANGED <<playback, config>>]_vars

\* C6, amended: advance(direction) outside WAIT leaves the playback state, the
\* cursor, the catalog and the display as they are, but sets the configured
\* direction to the one given; without a direction it changes nothing.
C6_AdvanceOutsideWaitOnlyTurns ==
    [][(call' = "advance" /\ current_state # WAIT) =>
          /\ UNCHANGED <<playback, order, loop, auto_advance, dwell>>
          /\ direction' = IF arg' # 0 THEN arg' ELSE direction]_vars

\* advance(BACKWARD) was called before the first update()
C6_Witness ==
    /\ call = "advance" /\ arg = BACKWARD /\ direction = BACKWARD
    /\ current_state = LOAD_IMG /\ images.pc = "created"

\* C7: with auto_advance off, update() takes SHOW_IMG to WAIT exactly when
\* the dwell has elapsed; in WAIT it returns True and touches neither the
\* cursor nor the display; and from the FADE_OUT that advance() leaves it
\* removes the image and asks the cursor for the next identifier, which is
\* then the one on the display.
C7_WaitsForAdvance ==
    [][call' = "update" =>
          /\ (current_state = SHOW_IMG /\ ~auto_advance) =>
                /\ current_state' = IF img_age' > dwell THEN WAIT ELSE SHOW_IMG
                /\ group' = group /\ images' = images /\ result' = "True"
          /\ current_state = WAIT =>
                /\ current_state' = WAIT
                /\ group' = group /\ images' = images /\ result' = "True"
          /\ (current_state = FADE_OUT /\ Len(group) = 1) =>
                /\ images' = get_next_image.gen
                /\ \/ /\ current_state' = FADE_IN /\ result' = "True"
                      /\ group' = <<get_next_image.value>>
                   \/ current_state' = LOAD_IMG /\ group' = <<>>]_vars

\* the second image, reached by a manual advance, has dwelt and update() has
\* been called again in WAIT
C7_Witness ==
    /\ ~auto_advance /\ dwell = 0 /\ call = "update" /\ result = "True"
    /\ current_state = WAIT /\ img_age = 2
    /\ file_list = <<1, 2, 3>> /\ group = <<2>>

\* C8: the backlight level stays within 0..65535 and is what each call
\* returns: backlight_level_up(step) gives min(level + step, 65535) and
\* backlight_level_down(step) gives max(level - step, 0).
C8_LevelInRange ==
    /\ max_brightness \in 0..65535
    /\ current_backlight_level = max_brightness
    /\ call \in {"backlight_level_up", "backlight_level_down"} =>
          result = current_backlight_level

C8_BacklightClamped ==
    /\ []C8_LevelInRange
    /\ [][/\ call' = "backlight_level_up" =>
                max_brightness' = Min(max_brightness + arg', 65535)
          /\ call' = "backlight_level_down" =>
                max_brightness' = IF max_brightness - arg' < 0 THEN 0
                                  ELSE max_brightness - arg']_vars

\* a step of exactly the missing 32768 was clamped to 65535
C8_Witness ==
    call = "backlight_level_up" /\ arg = 2 ^ 15 /\ result = 65535

\* C9: assigning order a value that is neither ALPHA nor RANDOM raises
\* ValueError and changes nothing.
C9_BadOrderRejected ==
    [][(call' = "order" /\ arg' \notin {ALPHA, RANDOM}) =>
          /\ result' = "ValueError"
          /\ UNCHANGED <<playback, config, backlight>>]_vars

\* a bad order was rejected during playback of a shuffled catalog
C9_Witness ==
    /\ call = "order" /\ arg = BadOrder /\ result = "ValueError"
    /\ order = RANDOM /\ file_list = <<2, 1>> /\ current_state = SHOW_IMG

IsAscending(s) == \A i, j \in 1..Len(s) : i < j => s[i] < s[j]

SameIdentifiers(s, t) == Len(s) = Len(t) /\ Range(s) = Range(t)

\* C10: assigning order the value it has leaves the catalog as it is;
\* assigning the other value re-derives it: ALPHA gives the ascending sort of
\* the same identifiers, RANDOM an ordering of the same identifiers.
C10_ReorderOnlyOnChange ==
    [][(call' = "order" /\ arg' \in {ALPHA, RANDOM}) =>
          /\ order' = arg'
          /\ arg' = order => file_list' = file_list
          /\ arg' # order =>
                /\ SameIdentifiers(file_list', file_list)
                /\ arg' = ALPHA => IsAscending(file_list')]_vars

\* order = RANDOM was assigned and the catalog is out of alphabetical order
C10_Witness ==
    /\ call = "order" /\ arg = RANDOM /\ order = RANDOM
    /\ file_list = <<2, 1>> /\ images.pc = "suspended"

\* C11: when the display rejects an identifier, update() returns True with the
\* playback state still LOAD_IMG and nothing added to the display (an accepted
\* identifier is the one image on it), and the update() that follows asks the
\* cursor for the identifier after the rejected one, never the same again.
C11_RejectedImageSkipped ==
    [][call' = "update" =>
          /\ current_state' = FADE_IN =>
                group' = <<getitem(file_list, images'.index)>>
          /\ (current_state' = LOAD_IMG /\ result' = "True") =>
                (group' = <<>> /\ images'.pc = "suspended")
          /\ (call = "update" /\ result = "True" /\ current_state = LOAD_IMG) =>
                \/ result' = "False" /\ images.wrapped /\ ~loop
                \/ /\ result' = "True"
                   /\ images'.pc = "suspended"
                   /\ images'.index = (images.index + direction) % Len(file_list)
                   /\ current_state' \in {FADE_IN, LOAD_IMG}]_vars

\* the first identifier was rejected, nothing has ever been shown, and the
\* next update() has put the second one on the display
C11_Witness ==
    /\ call = "update" /\ result = "True" /\ current_state = FADE_IN
    /\ img_age = NoStart /\ direction = FORWARD /\ ~images.wrapped
    /\ file_list = <<1, 2, 3>> /\ images.index = 1 /\ group = <<2>>

\* C12: whenever the playback state is WAIT, auto_advance is off, also when
\* the caller assigns auto_advance between two calls of update().
C12_WaitOnlyWithoutAutoAdvance == current_state = WAIT => ~auto_advance

\* an update() step that has asked the cursor for an identifier: it ends in
\* FADE_IN (image taken) or in LOAD_IMG (rejected, exhausted or raised)
AsksCursor == call' = "update" /\ current_state' \in {FADE_IN, LOAD_IMG}

\* the cursor call about to be made takes the index across an end of the catalog
Crosses ==
    LET n == Len(file_list)
        i == IF images.pc = "created"
             THEN (IF direction = FORWARD THEN -1 ELSE n)
             ELSE images.index
    IN  images.pc # "finished" /\ (i + direction < 0 \/ i + direction >= n)

\* C13: the cursor call that crosses an end of the catalog still yields the
\* element it wraps to; with loop off the cursor call right after it signals
\* exhaustion (update() returns False); and no cursor call signals exhaustion
\* for the first time unless the call before it wrapped and loop is off.
C13_CursorCall ==
    AsksCursor =>
        /\ (Crosses /\ ~(images.pc = "suspended" /\ images.wrapped /\ ~loop)) =>
              /\ images'.pc = "suspended" /\ images'.wrapped
              /\ images'.index = IF direction = FORWARD THEN 0
                                 ELSE Len(file_list) - 1
        /\ (images.pc = "suspended" /\ images.wrapped /\ ~loop) =>
              result' = "False"
        /\ (result' = "False" /\ ~stopped) =>
              (images.pc = "suspended" /\ images.wrapped /\ ~loop)

C13_ExhaustedOnlyAfterWrap == [][C13_CursorCall]_vars

\* C14: a direction given to advance() or assigned to direction between two
\* calls of update() is the one the very next cursor call steps by: from the
\* index i last yielded it yields (i + 1) mod N going forward and (i - 1) mod N
\* going backward, and that identifier is the one presented; the traversal
\* does not start over.
C14_TurnAppliedAtNextCall ==
    [][(AsksCursor /\ images.pc = "suspended" /\ images'.pc = "suspended") =>
          LET N == Len(file_list)
              d == IF call \in {"advance", "direction"} /\ arg # 0 THEN arg
                   ELSE direction
          IN  /\ images'.index = (images.index + d) % N
              /\ current_state' = FADE_IN =>
                    group' = <<getitem(file_list, images'.index)>>]_vars

\* three images: the first two were presented going forward, then the caller
\* turned backward and the first one was presented again
C14_Witness ==
    /\ file_list = <<1, 2, 3>> /\ shown = <<1, 2, 1>> /\ direction = BACKWARD
    /\ images.index = 0 /\ ~images.wrapped /\ group = <<1>>

\* the identifier at the end of the catalog the traversal starts from
FirstInDirection ==
    getitem(file_list, IF direction = FORWARD THEN 0 ELSE Len(file_list) - 1)

\* C15, as stated: after order was assigned a different value during playback
\* the cursor starts over: the next cursor call yields the first element of
\* the reordered catalog going forward and the last going backward.
C15_ReorderRestartsCursor ==
    [][(call = "order" /\ AsksCursor /\ images'.pc = "suspended") =>
          getitem(file_list, images'.index) = FirstInDirection]_vars

\* C15, amended: assigning order leaves the cursor, the playback state and
\* the display as they are; the next cursor call steps on from the index i
\* last yielded and yields the element at (i + 1) mod N (forward) or
\* (i - 1) mod N (backward) of the reordered catalog.  Only a cursor that has
\* not been asked yet starts at the first or last element.
C15_ReorderKeepsCursor ==
    [][/\ call' = "order" =>
             (images' = images /\ current_state' = current_state /\ group' = group)
       /\ (call = "order" /\ AsksCursor /\ images'.pc = "suspended") =>
             /\ images'.index =
                   IF images.pc = "created"
                   THEN (IF direction = FORWARD THEN 0 ELSE Len(file_list) - 1)
                   ELSE (images.index + direction) % Len(file_list)
             /\ current_state' = FADE_IN =>
                   group' = <<getitem(file_list, images'.index)>>]_vars

\* image 1 was presented from <<1, 2>>, the catalog was then shuffled into
\* <<2, 1>>, and the next cursor call has presented image 1 again from index 1
C15_Witness ==
    /\ order = RANDOM /\ file_list = <<2, 1>> /\ shown = <<1, 1>>
    /\ direction = FORWARD /\ images.index = 1 /\ ~images.wrapped
    /\ group = <<1>>

\* C16: with loop off and every image accepted, update() returns False only
\* once every identifier of the catalog has been presented, however the
\* caller turns the direction between calls.
C16_StopsOnlyAfterAllShown ==
    (~loop /\ call = "update" /\ result = "False" /\ Len(shown) < MaxShown) =>
        Range(file_list) \subseteq Range(shown)

\* an update() step that takes the image off the display
RemovesImage ==
    call' = "update" /\ current_state # LOAD_IMG
        /\ current_state' \in {LOAD_IMG, FADE_IN}

\* C17: the image is in WAIT or FADE_OUT only after an update() has seen more
\* than dwell elapse since its fade-in ended.
C17_Dwelt == current_state \in {WAIT, FADE_OUT} => img_age > dwell

\* C17: no image is removed before it has dwelt: the update() that removes it
\* sees more than dwell elapsed since the end of its fade-in; the update()
\* that fades an image in leaves it on the display, in SHOW_IMG; and advance()
\* on an image that is fading in or being shown changes nothing of that.
C17_NeverRemovedBeforeDwell ==
    /\ []C17_Dwelt
    /\ [][/\ RemovesImage => img_age' > dwell
          /\ (call' = "update" /\ current_state = FADE_IN) =>
                (current_state' = SHOW_IMG /\ group' = group /\ img_age' = 0)
          /\ (call' = "advance" /\ current_state \in {FADE_IN, SHOW_IMG}) =>
                /\ current_state' = current_state
                /\ group' = group /\ img_age' = img_age]_vars

\* with a dwell of 1 the first image was removed by the update() that saw 2
\* elapsed, and the second is on the display
C17_Witness ==
    /\ call = "update" /\ dwell = 1 /\ img_age = 2 /\ current_state = FADE_IN
    /\ file_list = <<1, 2, 3>> /\ images.index = 1 /\ group = <<2>>

\* C18, as stated: when the display rejects every identifier of a non-empty
\* catalog and loop is off, update() never returns False.
C18_NeverStopsWhenAllRejected ==
    (~loop /\ file_list # <<>>) => result # "False"

\* C18, amended: when the display rejects every identifier, update() keeps the
\* playback state LOAD_IMG with nothing on the display; with loop off it
\* returns True only while the cursor yields, and returns False at the call
\* after the one that yielded the wrapped-to identifier, so it does return
\* False in the end; with loop on and a non-empty catalog it never does.
C18_RejectedCatalogRunsOut ==
    /\ [](current_state = LOAD_IMG /\ group = <<>>)
    /\ []((loop /\ file_list # <<>>) => result \in {"None", "True"})
    /\ [][(result' = "False" /\ ~stopped /\ file_list # <<>>) =>
            (images.pc = "suspended" /\ images.wrapped /\ ~loop)]_vars
    /\ (~loop => <>(result = "False"))

\* every one of three identifiers was rejected, none was ever shown, and
\* update() has returned False
C18_Witness ==
    /\ call = "update" /\ result = "False" /\ ~loop /\ img_age = NoStart
    /\ file_list = <<1, 2, 3>> /\ images.pc = "finished"

\* C19: after any calls of update(), advance() and the setters, with images
\* accepted or rejected, the display holds exactly one image in FADE_IN,
\* SHOW_IMG, WAIT and FADE_OUT and none in LOAD_IMG; so the pop of FADE_OUT
\* always finds an image and an image is never added to one still there.
C19_OneImageOutsideLoad ==
    Len(group) = IF current_state = LOAD_IMG THEN 0 ELSE 1

\* an image was shown and removed, and the identifier asked for next was
\* rejected: the display is empty in LOAD_IMG
C19_Witness ==
    /\ call = "update" /\ result = "True" /\ current_state = LOAD_IMG
    /\ img_age # NoStart /\ group = <<>> /\ images.pc = "suspended"

\* C20: calls of advance() do not queue.  The first one made in WAIT sets
\* FADE_OUT, and any further one before the next update() changes nothing but
\* the direction; one made before WAIT is not remembered.  The update() that
\* follows asks the cursor exactly once and presents at most one image; after
\* it the image fades in and is shown, and with auto_advance off it is left
\* again only through WAIT, entered once the dwell has elapsed anew.
C20_AdvanceDoesNotQueue ==
    [][/\ call' = "advance" =>
             /\ current_state' = IF current_state = WAIT THEN FADE_OUT
                                 ELSE current_state
             /\ group' = group /\ images' = images /\ img_age' = img_age
       /\ (call' = "update" /\ current_state = FADE_OUT) =>
             /\ images' = get_next_image.gen
             /\ \/ current_state' = FADE_IN /\ group' = <<get_next_image.value>>
                \/ current_state' = LOAD_IMG /\ group' = <<>>
       /\ (call' = "update" /\ current_state = FADE_IN) =>
             /\ current_state' = SHOW_IMG
             /\ group' = group /\ images' = images /\ img_age' = 0
       /\ (call' = "update" /\ current_state = SHOW_IMG /\ ~auto_advance) =>
             /\ current_state' = IF img_age' > dwell THEN WAIT ELSE SHOW_IMG
             /\ group' = group /\ images' = images]_vars

\* both buttons in one round of the touch example: after advance(BACKWARD),
\* advance() was called on the first image, which is still to be faded out
C20_Witness ==
    /\ call = "advance" /\ arg = 0 /\ direction = BACKWARD
    /\ ~auto_advance /\ current_state = FADE_OUT
    /\ file_list = <<1, 2, 3>> /\ images.index = 0 /\ group = <<1>>

====
